---- MODULE Spec2Model ----
(***************************************************************************)
(* Stat progression engine of the RPG prototype: one stat category         *)
(* (PlayerStat subclass) with its SubStats, as implemented in              *)
(* src/player_files/player_stats/stat_base_classes.py and                  *)
(* src/game/player_files/player_stats/stat_types.py.                       *)
(*                                                                         *)
(* Every action is one whole call of a method; the while loop of           *)
(* check_and_level_up is computed by a RECURSIVE operator.  The variables  *)
(* op / ret / level_ups record the last call, its return value and the     *)
(* number of loop iterations it made, so that claims about a call's        *)
(* result can be stated over states and steps.  ret is the Python value    *)
(* returned ("True", "False", "None"); a call that raises leaves the      *)
(* exception's name there.  A call that returns a number leaves "number"  *)
(* in ret and the number in value.  compute_player_physical_stats can     *)
(* return a float: value then holds the number it returned in units of    *)
(* 1/100, to the nearest unit.  other is a second instance of the same    *)
(* class, where there is one, with the names of the SubStats objects the  *)
(* two instances have in common.  history is a ledger kept beside the     *)
(* program where a claim speaks of what was deposited or counted so far;  *)
(* player holds the attributes of a legacy Player (player_files/player.py) *)
(* where one is constructed.                                               *)
(***************************************************************************)
EXTENDS Integers, FiniteSets, Sequences, TLC

VARIABLES main_name, substats, physical, main_level, total_substat_levels,
          main_level_req, op, ret, level_ups, value, other, history, player

vars == <<main_name, substats, physical, main_level, total_substat_levels,
          main_level_req, op, ret, level_ups, value, other, history,
          player>>

(***************************************************************************)
(* Bounds of the model.                                                    *)
(***************************************************************************)
\* experience is deposited into a sub-stat only while its level is <= MaxLevel
MaxLevel == 2
\* ... and while the sub-stats of the category have gained fewer than
\* MaxGained levels between them
MaxGained == 6
\* a deposit never takes the stored experience above MaxExp ...
MaxExp == 20
\* ... nor below -MaxDebt
MaxDebt == 10
\* main levels at which a category is constructed to compute its derived
\* stats (the tiers are < 50, 50..99 and >= 100)
MaxMainLevel == 104
\* arguments of round_to_3_leading_digits: every int 0..MaxRoundArg, and
\* the ints k * 10^z and k * 10^z + 1 for z <= MaxZeros and some three-digit
\* k (2^53 is about 9 * 10^15)
MaxRoundArg == 1200
MaxZeros == 14
\* levels at which a sub-stat is constructed to evaluate the experience curve
\* (block 0 is levels 1..100, block 1 levels 101..200)
MaxCurveLevel == 199

\* the highest main level of a category whose compute methods are called
\* by name and with other growth options
MaxCallLevel == 6
\* experience is deposited into a sub-stat of the second instance of a
\* class only while every sub-stat of that instance has level <= MaxOtherLevel
MaxOtherLevel == 1
MaxPairGained == 2
\* a legacy Player's stat is constructed at a level <= MaxPlayerLevel (the
\* requirement is 50000 at levels 100 and 101) and is fed while its
\* experience stays <= MaxPlayerExp
MaxPlayerLevel == 101
MaxPlayerExp == 100000
\* with names that are no attributes the legacy Player is fed small amounts
\* while its experience stays <= MaxSmallExp, and level_up is called
\* directly below level MaxDirectLevel
MaxSmallExp == 10
MaxDirectLevel == 2
\* levels and capability multipliers of the sub-stat whose capability is
\* computed
MaxCapLevel == 3
MaxMulti == 3

\* amounts passed to add_exp / train (a negative one, one that levels a fresh
\* sub-stat once, one that levels it twice in a single call)
Amounts == {-10, 10, 20}

(***************************************************************************)
(* The categories and their SubStats fields (stat_types.py).               *)
(***************************************************************************)
SubstatFields(c) ==
    CASE c = "Strength" -> {"core_strength", "upper_body_strength",
                            "grip_strength", "lower_body_strength"}
      [] c = "Speed" -> {"reaction_time", "velocity", "acceleration", "agility"}
      [] c = "Durability" -> {"lung_capacity", "stamina", "regeneration",
                              "toughness"}
      [] c = "Intelligence" -> {"knowledge", "logic", "strategy",
                                "problem_solving"}
      [] c = "Magic" -> {"mana_control", "spell_power", "magic_resistance"}

\* the int fields holding the derived ("physical") stats: names that are
\* attributes of the category but not SubStats
PhysicalFields(c) ==
    CASE c = "Strength" -> {"damage"}
      [] c = "Speed" -> {"accuracy", "evasiveness"}
      [] c = "Durability" -> {"player_health", "player_stamina", "player_regen"}
      [] c = "Intelligence" -> {"player_leadership"}
      [] c = "Magic" -> {"mana"}

\* the class defaults of the derived fields
PhysicalDefault(f) ==
    CASE f = "damage" -> 5
      [] f \in {"accuracy", "evasiveness"} -> 100
      [] f \in {"player_health", "player_stamina", "mana"} -> 100
      [] f = "player_regen" -> 5
      [] f = "player_leadership" -> 50

\* the growth options <<option1, option2, option3>> that the category's
\* compute method of a derived field passes
Options(f) ==
    CASE f \in {"damage", "accuracy", "evasiveness"} -> <<5, 15, 100>>
      [] f = "player_health" -> <<15, 50, 300>>
      [] f = "player_stamina" -> <<5, 10, 75>>
      [] f = "player_regen" -> <<1, 5, 50>>
      [] f = "player_leadership" -> <<10, 35, 175>>
      [] f = "mana" -> <<10, 25, 125>>

\* the category classes of stat_types.py
Categories == {"Strength", "Speed", "Durability", "Intelligence", "Magic"}

\* the category instances explored: all sub-stat operations on the
\* three-sub-stat class, the category's own entry points on a three- and a
\* four-sub-stat class
SpecCategories == {"Magic"}
TrainCategories == {"Magic", "Strength"}

(***************************************************************************)
(* SubStats                                                                *)
(***************************************************************************)
\* SubStats dataclass defaults: level 1, exp 0, exp_to_next_level 10
NewSubStat == [level |-> 1, exp |-> 0, exp_to_next_level |-> 10]

\* x ** n for naturals
RECURSIVE Pow(_, _)
Pow(x, n) == IF n = 0 THEN 1 ELSE x * Pow(x, n - 1)

\* compute_exp_requirement with the position in the block taken from the
\* level itself in place of level - 1
compute_exp_requirement_by_level(level) ==
    LET b == (level - 1) \div 100
        i == level % 100
        start_exp == IF b = 0 THEN 10 ELSE 50000 * Pow(250, b - 1)
        end_exp == IF b = 0 THEN 50000 ELSE 50000 * Pow(250, b)
        d == end_exp - start_exp
    IN  start_exp + (i * i) * (d \div 9801) + ((i * i) * (d % 9801)) \div 9801

\* compute_exp_requirement interpolating with (start_exp - end_exp)
compute_exp_requirement_swapped(level) ==
    LET b == (level - 1) \div 100
        i == (level - 1) % 100
        start_exp == IF b = 0 THEN 10 ELSE 50000 * Pow(250, b - 1)
        end_exp == IF b = 0 THEN 50000 ELSE 50000 * Pow(250, b)
        d == start_exp - end_exp
    IN  start_exp + (i * i) * (d \div 9801) + ((i * i) * (d % 9801)) \div 9801

\* compute_exp_requirement whose later blocks start at 10 * 250 ** b instead
\* of where the block before ended
compute_exp_requirement_unchained(level) ==
    LET b == (level - 1) \div 100
        i == (level - 1) % 100
        start_exp == IF b = 0 THEN 10 ELSE 10 * Pow(250, b)
        end_exp == IF b = 0 THEN 50000 ELSE 50000 * Pow(250, b)
        d == end_exp - start_exp
    IN  start_exp + (i * i) * (d \div 9801) + ((i * i) * (d % 9801)) \div 9801

\* SubStats.compute_exp_requirement, as a function of self.level.
\* int(start + ((i / 99) ** 2) * (end - start)) is evaluated in integers as
\* start + floor(i*i*(end - start) / 9801), the quotient split so that no
\* intermediate product leaves 32 bits.  For the levels 1..200 the double
\* arithmetic of the source gives this same integer.
compute_exp_requirement(level) ==
    LET b == (level - 1) \div 100
        i == (level - 1) % 100
        start_exp == IF b = 0 THEN 10 ELSE 50000 * Pow(250, b - 1)
        end_exp == IF b = 0 THEN 50000 ELSE 50000 * Pow(250, b)
        d == end_exp - start_exp
    IN  start_exp + (i * i) * (d \div 9801) + ((i * i) * (d % 9801)) \div 9801

(***************************************************************************)
(* Python numbers.  An int is a TLA+ integer.  A float is an IEEE-754       *)
(* double, kept as [m, e] for the value m * 2^e with 2^52 <= m < 2^53 (or   *)
(* m = 0); m is a natural number too large for a machine integer, held as   *)
(* a little-endian sequence of 15-bit limbs.  Every float operation        *)
(* returns the double nearest to the exact result, ties to even, as the    *)
(* hardware does.                                                          *)
(***************************************************************************)
Limb == Pow(2, 15)

\* --- natural numbers as limb sequences (no high zero limbs; 0 is <<>>)
RECURSIVE Norm(_)
Norm(a) ==
    IF a = <<>> THEN <<>>
    ELSE IF a[Len(a)] = 0 THEN Norm(SubSeq(a, 1, Len(a) - 1)) ELSE a

RECURSIVE BN(_)
BN(n) == IF n = 0 THEN <<>> ELSE <<n % Limb>> \o BN(n \div Limb)

RECURSIVE ToInt(_)
ToInt(a) == IF a = <<>> THEN 0 ELSE a[1] + Limb * ToInt(Tail(a))

RECURSIVE AddC(_, _, _)
AddC(a, b, c) ==
    IF a = <<>> /\ b = <<>>
    THEN IF c = 0 THEN <<>> ELSE <<c>>
    ELSE LET x == (IF a = <<>> THEN 0 ELSE a[1])
                  + (IF b = <<>> THEN 0 ELSE b[1]) + c
         IN  <<x % Limb>> \o AddC(IF a = <<>> THEN <<>> ELSE Tail(a),
                                  IF b = <<>> THEN <<>> ELSE Tail(b),
                                  x \div Limb)

BAdd(a, b) == AddC(a, b, 0)

\* a - b for a >= b
RECURSIVE SubC(_, _, _)
SubC(a, b, c) ==
    IF a = <<>> THEN <<>>
    ELSE LET x == a[1] - (IF b = <<>> THEN 0 ELSE b[1]) - c
         IN  <<x % Limb>> \o SubC(Tail(a),
                                  IF b = <<>> THEN <<>> ELSE Tail(b),
                                  IF x < 0 THEN 1 ELSE 0)

BSub(a, b) == Norm(SubC(a, b, 0))

\* -1, 0, 1 as a < b, a = b, a > b
RECURSIVE CmpFrom(_, _, _)
CmpFrom(a, b, i) ==
    IF i = 0 THEN 0
    ELSE IF a[i] < b[i] THEN -1
    ELSE IF a[i] > b[i] THEN 1
    ELSE CmpFrom(a, b, i - 1)

BCmp(a, b) ==
    IF Len(a) < Len(b) THEN -1
    ELSE IF Len(a) > Len(b) THEN 1
    ELSE CmpFrom(a, b, Len(a))

\* a * k + c for a small k
RECURSIVE MulC(_, _, _)
MulC(a, k, c) ==
    IF a = <<>> THEN BN(c)
    ELSE LET x == a[1] * k + c
         IN  <<x % Limb>> \o MulC(Tail(a), k, x \div Limb)

BMulSmall(a, k) == Norm(MulC(a, k, 0))

RECURSIVE BMul(_, _)
BMul(a, b) ==
    IF a = <<>> \/ b = <<>> THEN <<>>
    ELSE Norm(BAdd(BMulSmall(a, b[1]), <<0>> \o BMul(a, Tail(b))))

\* floor(a / d) for a small d, from the high limb down
RECURSIVE DivC(_, _, _)
DivC(a, d, r) ==
    IF a = <<>> THEN <<>>
    ELSE LET x == r * Limb + a[Len(a)]
         IN  DivC(SubSeq(a, 1, Len(a) - 1), d, x % d) \o <<x \div d>>

BDivSmall(a, d) == Norm(DivC(a, d, 0))

RECURSIVE SmallBitLen(_)
SmallBitLen(n) == IF n = 0 THEN 0 ELSE 1 + SmallBitLen(n \div 2)

BitLen(a) ==
    IF a = <<>> THEN 0 ELSE 15 * (Len(a) - 1) + SmallBitLen(a[Len(a)])

Bit(a, i) ==
    IF i \div 15 + 1 > Len(a) THEN 0
    ELSE (a[i \div 15 + 1] \div Pow(2, i % 15)) % 2

\* a * 2^k
Shl(a, k) ==
    IF a = <<>> THEN <<>>
    ELSE [j \in 1..(k \div 15) |-> 0] \o BMulSmall(a, Pow(2, k % 15))

\* floor(a / 2^k)
Shr(a, k) ==
    IF k \div 15 >= Len(a) THEN <<>>
    ELSE BDivSmall(SubSeq(a, k \div 15 + 1, Len(a)), Pow(2, k % 15))

\* the largest limb q with d * q <= r, for r < d * 2^15, found bit by bit
RECURSIVE Digit(_, _, _, _)
Digit(r, d, k, acc) ==
    IF k < 0 THEN acc
    ELSE IF BCmp(BMulSmall(d, acc + Pow(2, k)), r) <= 0
         THEN Digit(r, d, k - 1, acc + Pow(2, k))
         ELSE Digit(r, d, k - 1, acc)

\* one step of the long division: p is the quotient and remainder of the
\* higher limbs, limb the next limb of the dividend
DivEmit(q, r2, d, qd) ==
    [q |-> Norm(<<qd>> \o q), r |-> BSub(r2, BMulSmall(d, qd))]

DivStep(p, limb, d) ==
    IF p.r = <<>> /\ limb = 0 THEN [q |-> Norm(<<0>> \o p.q), r |-> <<>>]
    ELSE DivEmit(p.q, Norm(<<limb>> \o p.r), d,
                 Digit(Norm(<<limb>> \o p.r), d, 14, 0))

\* quotient and remainder of n / d by long division, high limb of n first
RECURSIVE BDivMod(_, _)
BDivMod(n, d) ==
    IF n = <<>> THEN [q |-> <<>>, r |-> <<>>]
    ELSE DivStep(BDivMod(Tail(n), d), n[1], d)

\* --- doubles
\* m with 53 or 54 bits, brought back to 53
Carry(m, e) ==
    IF BitLen(m) = 54 THEN [m |-> Shr(m, 1), e |-> e + 1]
    ELSE [m |-> m, e |-> e]

\* (q + r / d) * 2^e for a q of 53 + t bits, t > 0, and r < d, rounded to
\* 53 bits: up when the bits dropped are more than half a unit of the last
\* place, or exactly half and the last bit kept is 1
Pack(q, r, t, e) ==
    Carry(IF Bit(q, t - 1) = 1
             /\ (Bit(q, t) = 1 \/ r # <<>> \/ Shl(Shr(q, t - 1), t - 1) # q)
          THEN BAdd(Shr(q, t), <<1>>)
          ELSE Shr(q, t),
          e + t)

Rounded(qr, e) == Pack(qr.q, qr.r, BitLen(qr.q) - 53, e)

\* n and d scaled by powers of 2 for a quotient of 54 or 55 bits
Scaled(n, d, e0, s) ==
    Rounded(BDivMod(Shl(n, IF s >= 0 THEN s ELSE 0),
                    Shl(d, IF s >= 0 THEN 0 ELSE -s)),
            e0 - s)

\* the double nearest to (n / d) * 2^e0, ties to even
RoundRat(n, d, e0) ==
    IF n = <<>> THEN [m |-> <<>>, e |-> 0]
    ELSE Scaled(n, d, e0, 54 - (BitLen(n) - BitLen(d)))

FMul(x, y) == RoundRat(BMul(x.m, y.m), <<1>>, x.e + y.e)

FDiv(x, y) == RoundRat(x.m, y.m, x.e - y.e)

Aligned(x, y, e) ==
    RoundRat(BAdd(Shl(x.m, x.e - e), Shl(y.m, y.e - e)), <<1>>, e)

FAdd(x, y) == Aligned(x, y, IF x.e < y.e THEN x.e ELSE y.e)

(***************************************************************************)
(* Python numbers: [int |-> TRUE, v |-> a natural number] is an int (of    *)
(* any size, as Python's are), [int |-> FALSE, v |-> a double] a float; v  *)
(* is the magnitude and neg says whether the number is below 0.  An        *)
(* operator of two ints gives an int, except the true division /; a float  *)
(* operand makes the other a float.                                        *)
(***************************************************************************)
PyInt(k) ==
    [int |-> TRUE, neg |-> k < 0, v |-> BN(IF k < 0 THEN -k ELSE k)]
PyBig(a) == [int |-> TRUE, neg |-> FALSE, v |-> a]
PyFloat(x) == [int |-> FALSE, neg |-> FALSE, v |-> x]

\* n == 0
PyIsZero(n) == IF n.int THEN n.v = <<>> ELSE n.v.m = <<>>

\* the number of magnitude n and sign s (an int 0 has no sign)
WithSign(n, s) == [n EXCEPT !.neg = s /\ ~(n.int /\ n.v = <<>>)]

\* float(n), the magnitude
AsFloat(n) == IF n.int THEN RoundRat(n.v, <<1>>, 0) ELSE n.v

\* a / b: of two ints, the double nearest the exact quotient
PyDiv(a, b) ==
    WithSign(IF a.int /\ b.int THEN PyFloat(RoundRat(a.v, b.v, 0))
             ELSE PyFloat(FDiv(AsFloat(a), AsFloat(b))),
             a.neg # b.neg)

PyMul(a, b) ==
    WithSign(IF a.int /\ b.int THEN PyBig(BMul(a.v, b.v))
             ELSE PyFloat(FMul(AsFloat(a), AsFloat(b))),
             a.neg # b.neg)

\* x - y of two naturals scaled by 2^e, as a float: the sign is that of the
\* larger, xneg for x and its opposite for y; an exact 0 is +0.0
Difference(x, y, e, xneg) ==
    IF BCmp(x, y) >= 0
    THEN WithSign(PyFloat(RoundRat(BSub(x, y), <<1>>, e)),
                  xneg /\ x # y)
    ELSE WithSign(PyFloat(RoundRat(BSub(y, x), <<1>>, e)), ~xneg)

FSub(x, y, e, xneg) ==
    Difference(Shl(x.m, x.e - e), Shl(y.m, y.e - e), e, xneg)

\* a + b
PyAdd(a, b) ==
    IF a.neg = b.neg
    THEN WithSign(IF a.int /\ b.int THEN PyBig(BAdd(a.v, b.v))
                  ELSE PyFloat(FAdd(AsFloat(a), AsFloat(b))),
                  a.neg)
    ELSE IF a.int /\ b.int
    THEN IF BCmp(a.v, b.v) >= 0 THEN WithSign(PyBig(BSub(a.v, b.v)), a.neg)
         ELSE WithSign(PyBig(BSub(b.v, a.v)), b.neg)
    ELSE FSub(AsFloat(a), AsFloat(b),
              IF AsFloat(a).e < AsFloat(b).e THEN AsFloat(a).e
              ELSE AsFloat(b).e,
              a.neg)

\* int(n): the integer part, towards 0
PyTrunc(n) ==
    IF n.int THEN n
    ELSE IF n.v.e >= 0 THEN WithSign(PyBig(Shl(n.v.m, n.v.e)), n.neg)
    ELSE WithSign(PyBig(Shr(n.v.m, -n.v.e)), n.neg)

\* math.ceil(n)
PyCeil(n) ==
    IF n.int \/ n.neg THEN PyTrunc(n)
    ELSE IF n.v.e >= 0 THEN PyBig(Shl(n.v.m, n.v.e))
    ELSE PyBig(BAdd(Shr(n.v.m, -n.v.e),
                    IF Shl(Shr(n.v.m, -n.v.e), -n.v.e) # n.v.m
                    THEN <<1>> ELSE <<>>))

\* 10^k as a natural number
RECURSIVE BPow10(_)
BPow10(k) == IF k = 0 THEN <<1>> ELSE BMulSmall(BPow10(k - 1), 10)

\* 10 ** zeros: an int for zeros >= 0, else the float nearest 10^zeros
PyPow10(zeros) ==
    IF zeros >= 0 THEN PyBig(BPow10(zeros))
    ELSE PyDiv(PyInt(1), PyBig(BPow10(-zeros)))

\* a number >= 0 read to the nearest 1/100, in units of 1/100
Nearest(n, e) ==
    IF e >= 0 THEN ToInt(Shl(n, e)) ELSE ToInt(Shr(n, -e)) + Bit(n, -e - 1)

InHundredths(n) ==
    IF n.int THEN 100 * ToInt(n.v)
    ELSE Nearest(BMulSmall(n.v.m, 100), n.v.e)

(***************************************************************************)
(* tools/number_utils.py                                                   *)
(***************************************************************************)
\* the number of decimal digits of an int k >= 1
RECURSIVE Digits(_)
Digits(k) == IF k < 10 THEN 1 ELSE 1 + Digits(k \div 10)

\* ... and of a natural number a >= 1
RECURSIVE BDigits(_)
BDigits(a) ==
    IF BCmp(a, <<10>>) < 0 THEN 1 ELSE 1 + BDigits(BDivSmall(a, 10))

\* int(math.log10(n)) + 1: the number of digits of the integer part of
\* float(n), for an n >= 1 whose logarithm is not within a rounding error
\* of the next integer
log10_digits(n) == BDigits(PyTrunc(PyFloat(AsFloat(n))).v)

\* rounded = math.ceil(n / factor) * factor
rounded(n, factor) == PyMul(PyCeil(PyDiv(n, factor)), factor)

\* an exception raised in place of a value
Raised(e) == [raised |-> e]
IsRaised(r) == "raised" \in DOMAIN r

\* round_to_3_leading_digits(n) for a number n that is 0, > 0.1 or < 0;
\* math.log10 of a negative number raises ValueError
round_to_3_leading_digits(n) ==
    IF PyIsZero(n) THEN PyInt(0)
    ELSE IF n.neg THEN Raised("ValueError")
    ELSE rounded(n, PyPow10(log10_digits(n) - 3))

(***************************************************************************)
(* PlayerStat.compute_player_physical_stats on a category whose main_level *)
(* is level and whose field physical_name holds chosen: the value          *)
(* returned.  The literal 1.1 is the double nearest 11/10.                 *)
(***************************************************************************)
increase_factor(level, option1, option2, option3) ==
    IF level < 50
    THEN PyMul(PyDiv(PyInt(level), PyInt(5)), PyInt(option1))
    ELSE IF level < 100
    THEN PyMul(PyDiv(PyInt(level), PyInt(5)), PyInt(option2))
    ELSE PyMul(PyDiv(PyInt(level), PyInt(5)),
               PyMul(PyInt(option3),
                     PyAdd(PyDiv(PyInt(level - 100), PyInt(75)), PyInt(1))))

compute_player_physical_stats(level, chosen, option1, option2, option3) ==
    round_to_3_leading_digits(
        PyAdd(PyTrunc(PyMul(PyInt(chosen), PyDiv(PyInt(11), PyInt(10)))),
              increase_factor(level, option1, option2, option3)))

\* SubStats.add_exp: self.exp += exp, whatever the sign of exp
add_exp(st, exp) == [st EXCEPT !.exp = st.exp + exp]

\* the loop body dropping the experience left over
level_up_once_reset(st) ==
    [level |-> st.level + 1,
     exp |-> 0,
     exp_to_next_level |-> compute_exp_requirement(st.level)]

\* the loop body deducting the requirement recomputed from the level in place
\* of the stored exp_to_next_level
level_up_once_recomputed(st) ==
    [level |-> st.level + 1,
     exp |-> st.exp - compute_exp_requirement(st.level),
     exp_to_next_level |-> compute_exp_requirement(st.level)]

\* one iteration of the loop body of check_and_level_up: the threshold is
\* deducted, the new threshold is computed from self.level BEFORE the level
\* is incremented, then the level is incremented
level_up_once(st) ==
    [level |-> st.level + 1,
     exp |-> st.exp - st.exp_to_next_level,
     exp_to_next_level |-> compute_exp_requirement(st.level)]

\* check_and_level_up with the loop test written as "exceeds" (>), as its
\* docstring words it
RECURSIVE check_and_level_up_exceeds(_)
check_and_level_up_exceeds(st) ==
    IF st.exp > st.exp_to_next_level
    THEN LET r == check_and_level_up_exceeds(level_up_once(st))
         IN  [st |-> r.st, n |-> r.n + 1]
    ELSE [st |-> st, n |-> 0]

\* check_and_level_up with an if in place of the while: one level-up a call
check_and_level_up_single(st) ==
    IF st.exp >= st.exp_to_next_level
    THEN [st |-> level_up_once(st), n |-> 1]
    ELSE [st |-> st, n |-> 0]

\* SubStats.check_and_level_up: the whole while loop.  Returns the final
\* sub-stat and the number of iterations that levelled up.
RECURSIVE check_and_level_up(_)
check_and_level_up(st) ==
    IF st.exp >= st.exp_to_next_level
    THEN LET r == check_and_level_up(level_up_once(st))
         IN  [st |-> r.st, n |-> r.n + 1]
    ELSE [st |-> st, n |-> 0]

\* Python truth value returned by a call, as a string
Bool(b) == IF b THEN "True" ELSE "False"

(***************************************************************************)
(* PlayerStat                                                              *)
(***************************************************************************)
\* main_level_req left at its field default, 0
post_init_req_field_default(level, amount) == 0

\* PlayerStat.__post_init__: main_level_req = main_level * substat_amount
post_init_req(level, amount) == level * amount

substat_amount == Cardinality(SubstatFields(main_name))

\* the wrapper with "is not False" in place of the truth test
wrapper_total_not_false(total, leveled_up) ==
    IF leveled_up # "False" THEN total + 1 ELSE total

\* the wrapper with -= in place of +=
wrapper_total_minus(total, leveled_up) ==
    IF leveled_up = "True" THEN total - 1 ELSE total

\* update_total_substat_level.wrapper: total_substat_levels += 1 when the
\* wrapped train returned a true value (None and False are both false)
wrapper_total(total, leveled_up) ==
    IF leveled_up = "True" THEN total + 1 ELSE total

\* train with a wrapper that adds the number of levels gained
train_counts_levels(fields, subs, total, substat_name, exp) ==
    IF substat_name \in fields
    THEN LET r == check_and_level_up(add_exp(subs[substat_name], exp))
         IN  [substats |-> [subs EXCEPT ![substat_name] = r.st],
              total |-> total + r.n,
              ret |-> Bool(r.n > 0),
              n |-> r.n]
    ELSE [substats |-> subs, total |-> total, ret |-> "None", n |-> 0]

\* PlayerStat.train as decorated by update_total_substat_level: the body
\* (membership test, add_exp, check_and_level_up; None when the name is not
\* in self.substats), then the wrapper.  fields is self.substats.
train(fields, subs, total, substat_name, exp) ==
    IF substat_name \in fields
    THEN LET r == check_and_level_up(add_exp(subs[substat_name], exp))
         IN  [substats |-> [subs EXCEPT ![substat_name] = r.st],
              total |-> wrapper_total(total, Bool(r.n > 0)),
              ret |-> Bool(r.n > 0),
              n |-> r.n]
    ELSE [substats |-> subs,
          total |-> wrapper_total(total, "None"),
          ret |-> "None",
          n |-> 0]

\* try_main_level_up comparing against the requirement of the level before
try_main_level_up_early(level, total, req, amount) ==
    IF total >= req - amount
    THEN [main_level |-> level + 1,
          main_level_req |-> (level + 1) * amount,
          ret |-> "True"]
    ELSE [main_level |-> level, main_level_req |-> req, ret |-> "False"]

\* try_main_level_up with > in place of >=
try_main_level_up_strict(level, total, req, amount) ==
    IF total > req
    THEN [main_level |-> level + 1,
          main_level_req |-> (level + 1) * amount,
          ret |-> "True"]
    ELSE [main_level |-> level, main_level_req |-> req, ret |-> "False"]

\* try_main_level_up with a while in place of the if
RECURSIVE try_main_level_up_loop(_, _, _, _)
try_main_level_up_loop(level, total, req, amount) ==
    IF total >= req
    THEN [try_main_level_up_loop(level + 1, total, (level + 1) * amount,
                                 amount) EXCEPT !.ret = "True"]
    ELSE [main_level |-> level, main_level_req |-> req, ret |-> "False"]

\* try_main_level_up with the requirement computed before the increment
try_main_level_up_stale(level, total, req, amount) ==
    IF total >= req
    THEN [main_level |-> level + 1,
          main_level_req |-> level * amount,
          ret |-> "True"]
    ELSE [main_level |-> level, main_level_req |-> req, ret |-> "False"]

\* PlayerStat.try_main_level_up, as a function of the three fields it reads
try_main_level_up(level, total, req, amount) ==
    IF total >= req
    THEN [main_level |-> level + 1,
          main_level_req |-> (level + 1) * amount,
          ret |-> "True"]
    ELSE [main_level |-> level, main_level_req |-> req, ret |-> "False"]

\* history, where no ledger is kept
Untracked == [tracked |-> FALSE]

\* player, where no legacy Player is constructed
NoPlayer == [constructed |-> FALSE]

\* the ledger of a fresh category of class c: per sub-stat the sum of the
\* amounts deposited and the sum of the thresholds deducted at level-ups,
\* and the number of train calls that returned True
Tracking(c) ==
    [tracked |-> TRUE,
     deposited |-> [s \in SubstatFields(c) |-> 0],
     deducted |-> [s \in SubstatFields(c) |-> 0],
     trains_true |-> 0]

\* the sum of the thresholds that the loop of check_and_level_up deducts
\* from the sub-stat st (self.exp -= self.exp_to_next_level, once an
\* iteration)
RECURSIVE Deducted(_)
Deducted(st) ==
    IF st.exp >= st.exp_to_next_level
    THEN st.exp_to_next_level + Deducted(level_up_once(st))
    ELSE 0

\* the ledger h after a call that deposited exp into sub-stat s, deducted
\* thresholds summing to taken from it and, if it was a train call that
\* returned True, counts as one
Recorded(h, s, exp, taken, counted) ==
    IF ~h.tracked THEN h
    ELSE [h EXCEPT !.deposited[s] = @ + exp,
                   !.deducted[s] = @ + taken,
                   !.trains_true = @ + counted]

\* the ledger after train(substat_name, exp) returned leveled_up
RecordedTrain(h, subs, substat_name, exp, leveled_up) ==
    IF substat_name \notin DOMAIN subs THEN h
    ELSE Recorded(h, substat_name, exp,
                  Deducted(add_exp(subs[substat_name], exp)),
                  IF leveled_up = "True" THEN 1 ELSE 0)

\* other, when the category is the only instance of its class: no SubStats
\* object is shared with another instance
Alone == [shared |-> {}]

\* another instance o of the class after the sub-stats of this one became
\* subs: a SubStats object that both instances hold (o.shared) is one
\* object, so the other instance sees what was written to it
Aliased(o, subs) ==
    IF o.shared = {} THEN o
    ELSE [o EXCEPT !.substats = [s \in DOMAIN @ |->
                                    IF s \in o.shared THEN subs[s] ELSE @[s]]]

\* a freshly constructed category of class c (dataclass defaults, then
\* __post_init__)
Fresh(c) ==
    /\ main_name = c
    /\ substats = [s \in SubstatFields(main_name) |-> NewSubStat]
    /\ physical = [f \in PhysicalFields(main_name) |-> PhysicalDefault(f)]
    /\ main_level = 1
    /\ total_substat_levels = 0
    /\ main_level_req = post_init_req(1, substat_amount)
    /\ op = [name |-> "init", arg |-> "", again |-> FALSE]
    /\ ret = "None"
    /\ level_ups = 0
    /\ value = 0
    /\ other = Alone
    /\ history = Untracked
    /\ player = NoPlayer

\* the record of a call: the method, the sub-stat name it was given, and,
\* for check_and_level_up, whether the call before it was
\* check_and_level_up on the same sub-stat
Call(name, arg) ==
    [name |-> name, arg |-> arg,
     again |-> name = "check_and_level_up" /\ op.name = name /\ op.arg = arg]

Init == \E c \in SpecCategories : Fresh(c)

\* levels gained so far by the sub-stats named in S
RECURSIVE LevelsGained(_)
LevelsGained(S) ==
    IF S = {} THEN 0
    ELSE LET s == CHOOSE x \in S : TRUE
         IN  (substats[s].level - 1) + LevelsGained(S \ {s})

\* the deposits the model explores
InBounds(s, exp) ==
    /\ substats[s].level <= MaxLevel
    /\ LevelsGained(DOMAIN substats) < MaxGained
    /\ substats[s].exp + exp <= MaxExp
    /\ substats[s].exp + exp >= -MaxDebt

\* substat.add_exp(exp) called directly on a sub-stat of the category
AddExp(s, exp) ==
    /\ InBounds(s, exp)
    /\ substats' = [substats EXCEPT ![s] = add_exp(substats[s], exp)]
    /\ op' = Call("add_exp", s)
    /\ ret' = "None"
    /\ level_ups' = 0
    /\ history' = Recorded(history, s, exp, 0, 0)
    /\ player' = player
    /\ other' = Aliased(other, substats')
    /\ UNCHANGED <<physical, main_name, main_level, total_substat_levels, main_level_req,
                   value>>

\* check_and_level_up counting its level-ups in the category's
\* total_substat_levels
CheckAndLevelUpCounted(s) ==
    LET r == check_and_level_up(substats[s])
    IN  /\ substats' = [substats EXCEPT ![s] = r.st]
        /\ op' = Call("check_and_level_up", s)
        /\ ret' = Bool(r.n > 0)
        /\ total_substat_levels' = total_substat_levels + r.n
        /\ level_ups' = r.n
        /\ history' = Recorded(history, s, 0, Deducted(substats[s]), 0)
        /\ player' = player
        /\ other' = Aliased(other, substats')
        /\ UNCHANGED <<physical, main_name, main_level,
                       main_level_req, value>>

\* substat.check_and_level_up() called directly on a sub-stat
CheckAndLevelUp(s) ==
    LET r == check_and_level_up(substats[s])
    IN  /\ substats' = [substats EXCEPT ![s] = r.st]
        /\ op' = Call("check_and_level_up", s)
        /\ ret' = Bool(r.n > 0)
        /\ level_ups' = r.n
        /\ history' = Recorded(history, s, 0, Deducted(substats[s]), 0)
        /\ player' = player
        /\ other' = Aliased(other, substats')
        /\ UNCHANGED <<physical, main_name, main_level, total_substat_levels,
                       main_level_req, value>>

\* train cascading into try_main_level_up ("automatic propagation of substat
\* changes to the main category")
TrainCascading(substat_name, exp) ==
    LET r == train(SubstatFields(main_name), substats, total_substat_levels,
                   substat_name, exp)
        m == try_main_level_up(main_level, r.total, main_level_req,
                               substat_amount)
    IN  /\ substat_name \in SubstatFields(main_name)
            => InBounds(substat_name, exp)
        /\ substats' = r.substats
        /\ total_substat_levels' = r.total
        /\ main_level' = m.main_level
        /\ main_level_req' = m.main_level_req
        /\ op' = Call("train", substat_name)
        /\ ret' = r.ret
        /\ level_ups' = r.n
        /\ history' = RecordedTrain(history, substats, substat_name, exp,
                                    r.ret)
        /\ player' = player
        /\ other' = Aliased(other, substats')
        /\ UNCHANGED <<physical, main_name, value>>

\* category.train(substat_name, exp)
Train(substat_name, exp) ==
    LET r == train(SubstatFields(main_name), substats, total_substat_levels,
                   substat_name, exp)
    IN  /\ substat_name \in SubstatFields(main_name)
            => InBounds(substat_name, exp)
        /\ substats' = r.substats
        /\ total_substat_levels' = r.total
        /\ op' = Call("train", substat_name)
        /\ ret' = r.ret
        /\ level_ups' = r.n
        /\ history' = RecordedTrain(history, substats, substat_name, exp,
                                    r.ret)
        /\ player' = player
        /\ other' = Aliased(other, substats')
        /\ UNCHANGED <<physical, main_name, main_level, main_level_req, value>>

\* try_main_level_up spending the requirement out of total_substat_levels
TryMainLevelUpConsuming ==
    LET r == try_main_level_up(main_level, total_substat_levels,
                               main_level_req, substat_amount)
    IN  /\ main_level' = r.main_level
        /\ main_level_req' = r.main_level_req
        /\ total_substat_levels' =
               IF r.ret = "True" THEN total_substat_levels - main_level_req
               ELSE total_substat_levels
        /\ op' = Call("try_main_level_up", "")
        /\ ret' = r.ret
        /\ level_ups' = 0
        /\ history' = history
        /\ player' = player
        /\ other' = other
        /\ UNCHANGED <<physical, main_name, substats, value>>

\* category.try_main_level_up()
TryMainLevelUp ==
    LET r == try_main_level_up(main_level, total_substat_levels,
                               main_level_req, substat_amount)
    IN  /\ main_level' = r.main_level
        /\ main_level_req' = r.main_level_req
        /\ op' = Call("try_main_level_up", "")
        /\ ret' = r.ret
        /\ level_ups' = 0
        /\ history' = history
        /\ player' = player
        /\ other' = other
        /\ UNCHANGED <<physical, main_name, substats, total_substat_levels, value>>

\* names a caller may pass to train: the sub-stats and the other fields
TrainNames == SubstatFields(main_name) \cup PhysicalFields(main_name)

Next ==
    \/ \E s \in SubstatFields(main_name), a \in Amounts : AddExp(s, a)
    \/ \E s \in SubstatFields(main_name) : CheckAndLevelUp(s)
    \/ \E n \in TrainNames, a \in Amounts : Train(n, a)
    \/ TryMainLevelUp

Spec == Init /\ [][Next]_vars

\* the category driven through its own entry points only
NextTrain ==
    \/ \E n \in TrainNames, a \in Amounts : Train(n, a)
    \/ TryMainLevelUp

InitTrain == \E c \in TrainCategories : Fresh(c)

SpecTrain == InitTrain /\ [][NextTrain]_vars

\* where several instances are explored (one of every class, or two of one
\* class), an instance is trained only while its sub-stats have gained
\* fewer than MaxPairGained levels between them
PairInBounds == LevelsGained(DOMAIN substats) < MaxPairGained

\* every category class driven through its own entry points
InitAll == \E c \in Categories : Fresh(c)

NextAll ==
    \/ \E n \in TrainNames, a \in Amounts : PairInBounds /\ Train(n, a)
    \/ TryMainLevelUp

SpecAll == InitAll /\ [][NextAll]_vars

\* the amounts deposited where a ledger is kept
Deposits == {0, 10, 20}

\* a fresh category with a ledger of what is deposited into its sub-stats
InitLedger ==
    \E c \in SpecCategories :
        /\ main_name = c
        /\ substats = [s \in SubstatFields(c) |-> NewSubStat]
        /\ physical = [f \in PhysicalFields(c) |-> PhysicalDefault(f)]
        /\ main_level = 1
        /\ total_substat_levels = 0
        /\ main_level_req = post_init_req(1, substat_amount)
        /\ op = [name |-> "init", arg |-> "", again |-> FALSE]
        /\ ret = "None"
        /\ level_ups = 0
        /\ value = 0
        /\ other = Alone
        /\ history = Tracking(c)
        /\ player = NoPlayer

NextLedger ==
    \/ \E s \in SubstatFields(main_name), a \in Deposits : AddExp(s, a)
    \/ \E s \in SubstatFields(main_name) : CheckAndLevelUp(s)
    \/ \E n \in TrainNames, a \in Deposits : Train(n, a)
    \/ TryMainLevelUp

SpecLedger == InitLedger /\ [][NextLedger]_vars

\* the caller goes on calling try_main_level_up for as long as a call
\* changes something
SpecLive == InitTrain /\ [][NextTrain]_vars /\ WF_vars(TryMainLevelUp)

\* sub-stat fields declared with one default object for the whole class
SharedDefaults_class_default(c) == SubstatFields(c)

\* the SubStats objects that a new instance of class c has in common with
\* an instance constructed before it: none, every sub-stat field being
\* declared with a default_factory, which is called once per instance
SharedDefaults(c) == {}

\* a second freshly constructed instance of class c
Second(c) ==
    [substats |-> [s \in SubstatFields(c) |-> NewSubStat],
     main_level |-> 1,
     total_substat_levels |-> 0,
     main_level_req |-> post_init_req(1, Cardinality(SubstatFields(c))),
     shared |-> SharedDefaults(c)]

\* two instances of one class
InitPair ==
    \E c \in SpecCategories :
        /\ main_name = c
        /\ substats = [s \in SubstatFields(c) |-> NewSubStat]
        /\ physical = [f \in PhysicalFields(c) |-> PhysicalDefault(f)]
        /\ main_level = 1
        /\ total_substat_levels = 0
        /\ main_level_req = post_init_req(1, substat_amount)
        /\ op = [name |-> "init", arg |-> "", again |-> FALSE]
        /\ ret = "None"
        /\ level_ups = 0
        /\ value = 0
        /\ other = Second(c)
        /\ history = Untracked
        /\ player = NoPlayer

\* the deposits into the second instance that the model explores
OtherInBounds(s, exp) ==
    /\ \A x \in DOMAIN other.substats :
           other.substats[x].level <= MaxOtherLevel
    /\ other.substats[s].exp + exp <= MaxExp
    /\ other.substats[s].exp + exp >= -MaxDebt

\* this instance after the sub-stats of the other one became subs
SelfAliased(subs) ==
    [s \in DOMAIN substats |->
        IF s \in other.shared THEN subs[s] ELSE substats[s]]

\* other_category.train(substat_name, exp), on the second instance
TrainOther(substat_name, exp) ==
    LET r == train(SubstatFields(main_name), other.substats,
                   other.total_substat_levels, substat_name, exp)
    IN  /\ substat_name \in SubstatFields(main_name)
            => OtherInBounds(substat_name, exp)
        /\ history' = history
        /\ player' = player
        /\ other' = [other EXCEPT !.substats = r.substats,
                                  !.total_substat_levels = r.total]
        /\ substats' = SelfAliased(r.substats)
        /\ op' = [name |-> "other.train", arg |-> substat_name,
                  again |-> FALSE]
        /\ ret' = r.ret
        /\ level_ups' = r.n
        /\ UNCHANGED <<physical, main_name, main_level,
                       total_substat_levels, main_level_req, value>>

\* the amounts the two instances are trained with
PairAmounts == {10, 20}

NextPair ==
    \/ \E n \in TrainNames, a \in PairAmounts : PairInBounds /\ Train(n, a)
    \/ \E n \in TrainNames, a \in PairAmounts : TrainOther(n, a)

SpecPair == InitPair /\ [][NextPair]_vars

(***************************************************************************)
(* The experience curve on its own: a category one of whose sub-stats was  *)
(* constructed at level L (SubStats(..., level=L)), and calls of that      *)
(* sub-stat's compute_exp_requirement.                                     *)
(***************************************************************************)
InitCurve ==
    \E c \in SpecCategories, L \in 1..MaxCurveLevel :
        /\ main_name = c
        /\ \E s \in SubstatFields(c) :
               substats = [x \in SubstatFields(c) |->
                              IF x = s THEN [NewSubStat EXCEPT !.level = L]
                              ELSE NewSubStat]
        /\ physical = [f \in PhysicalFields(c) |-> PhysicalDefault(f)]
        /\ main_level = 1
        /\ total_substat_levels = 0
        /\ main_level_req = post_init_req(1, substat_amount)
        /\ op = [name |-> "init", arg |-> "", again |-> FALSE]
        /\ ret = "None"
        /\ level_ups = 0
        /\ value = 0
        /\ other = Alone
        /\ history = Untracked
        /\ player = NoPlayer

\* substat.compute_exp_requirement(): returns the number, assigns nothing
ComputeExpRequirement(s) ==
    /\ value' = compute_exp_requirement(substats[s].level)
    /\ op' = Call("compute_exp_requirement", s)
    /\ ret' = "number"
    /\ level_ups' = 0
    /\ history' = history
    /\ player' = player
    /\ other' = other
    /\ UNCHANGED <<physical, main_name, substats, main_level, total_substat_levels,
                   main_level_req>>

NextCurve == \E s \in SubstatFields(main_name) : ComputeExpRequirement(s)

SpecCurve == InitCurve /\ [][NextCurve]_vars

(***************************************************************************)
(* round_to_3_leading_digits applied to a number: value holds the number   *)
(* at hand (a Python number), first an argument, then what the function    *)
(* returned for it; the function can be applied to its result again.       *)
(***************************************************************************)
LeadingDigits == {123, 512, 987}

RoundArgs ==
    {PyInt(k) : k \in 0..MaxRoundArg} \cup {PyInt(12345)}
    \cup {PyBig(BAdd(BMulSmall(BPow10(z), k), r)) :
              k \in LeadingDigits, z \in 0..MaxZeros, r \in {<<>>, <<1>>}}

InitRound ==
    \E c \in SpecCategories, n \in RoundArgs :
        /\ main_name = c
        /\ substats = [s \in SubstatFields(c) |-> NewSubStat]
        /\ physical = [f \in PhysicalFields(c) |-> PhysicalDefault(f)]
        /\ main_level = 1
        /\ total_substat_levels = 0
        /\ main_level_req = post_init_req(1, substat_amount)
        /\ op = [name |-> "init", arg |-> "", again |-> FALSE]
        /\ ret = "None"
        /\ level_ups = 0
        /\ value = n
        /\ other = Alone
        /\ history = Untracked
        /\ player = NoPlayer

\* round_to_3_leading_digits(value)
RoundTo3LeadingDigits ==
    /\ value' = round_to_3_leading_digits(value)
    /\ op' = [name |-> "round_to_3_leading_digits", arg |-> value,
              again |-> FALSE]
    /\ ret' = "number"
    /\ level_ups' = 0
    /\ history' = history
    /\ player' = player
    /\ other' = other
    /\ UNCHANGED <<physical, main_name, substats, main_level,
                   total_substat_levels, main_level_req>>

NextRound == RoundTo3LeadingDigits

SpecRound == InitRound /\ [][NextRound]_vars

(***************************************************************************)
(* The derived stats: a category of any class constructed at a main level  *)
(* (main_level is a constructor argument of the dataclass), on which the   *)
(* derived stats are computed with the options of the class's compute      *)
(* methods.                                                                *)
(***************************************************************************)
InitDerived ==
    \E c \in Categories, L \in 1..MaxMainLevel :
        /\ main_name = c
        /\ substats = [s \in SubstatFields(c) |-> NewSubStat]
        /\ physical = [f \in PhysicalFields(c) |-> PhysicalDefault(f)]
        /\ main_level = L
        /\ total_substat_levels = 0
        /\ main_level_req = post_init_req(L, substat_amount)
        /\ op = [name |-> "init", arg |-> "", again |-> FALSE]
        /\ ret = "None"
        /\ level_ups = 0
        /\ value = 0
        /\ other = Alone
        /\ history = Untracked
        /\ player = NoPlayer

\* getattr(self, physical_name) followed by chosen_physical_stat * 1.1: a
\* derived field and main_level are ints; a sub-stat is a SubStats object,
\* which has no * with a float; any other name here is no attribute
Chosen(physical_name) ==
    IF physical_name \in PhysicalFields(main_name)
    THEN [int |-> physical[physical_name]]
    ELSE IF physical_name = "main_level" THEN [int |-> main_level]
    ELSE IF physical_name \in SubstatFields(main_name)
    THEN Raised("TypeError")
    ELSE Raised("AttributeError")

\* what the call gives: the number returned or the exception raised
Outcome(chosen, option1, option2, option3) ==
    IF IsRaised(chosen) THEN chosen
    ELSE compute_player_physical_stats(main_level, chosen.int,
                                       option1, option2, option3)

\* None, the value of a call whose body ends without a return statement
None == [none |-> TRUE]

IsNone(r) == "none" \in DOMAIN r

\* the caller receives r: a number (left in value in units of 1/100; value
\* is 0 when no number is received), None or an exception
Receive(r) ==
    /\ ret' = IF IsRaised(r) THEN r.raised
              ELSE IF IsNone(r) THEN "None" ELSE "number"
    /\ value' = IF IsRaised(r) \/ IsNone(r) THEN 0 ELSE InHundredths(r)

\* compute_player_physical_stats storing the number in the derived field
\* (setattr(self, physical_name, chosen_physical_stat))
ComputePlayerPhysicalStatsStoring(physical_name, option1, option2, option3) ==
    /\ Receive(Outcome(Chosen(physical_name), option1, option2, option3))
    /\ op' = [name |-> "compute_player_physical_stats",
              arg |-> physical_name, again |-> FALSE,
              options |-> <<option1, option2, option3>>]
    /\ level_ups' = 0
    /\ history' = history
    /\ player' = player
    /\ other' = other
    /\ physical' = IF ret' = "number" /\ physical_name \in DOMAIN physical
                   THEN [physical EXCEPT ![physical_name] = value' \div 100]
                   ELSE physical
    /\ UNCHANGED <<main_name, substats, main_level,
                   total_substat_levels, main_level_req>>

\* self.compute_player_physical_stats(physical_name, option1, option2,
\* option3): returns the number or raises, assigns no attribute
ComputePlayerPhysicalStats(physical_name, option1, option2, option3) ==
    /\ Receive(Outcome(Chosen(physical_name), option1, option2, option3))
    /\ op' = [name |-> "compute_player_physical_stats",
              arg |-> physical_name, again |-> FALSE,
              options |-> <<option1, option2, option3>>]
    /\ level_ups' = 0
    /\ history' = history
    /\ player' = player
    /\ other' = other
    /\ UNCHANGED <<physical, main_name, substats, main_level,
                   total_substat_levels, main_level_req>>

NextDerived ==
    \E f \in PhysicalFields(main_name) :
        ComputePlayerPhysicalStats(f, Options(f)[1], Options(f)[2],
                                   Options(f)[3])

SpecDerived == InitDerived /\ [][NextDerived]_vars

\* the name of the category's compute method of a derived field
MethodName(f) ==
    CASE f = "damage" -> "compute_damage"
      [] f = "accuracy" -> "compute_accuracy"
      [] f = "evasiveness" -> "compute_evasiveness"
      [] f = "player_health" -> "compute_health"
      [] f = "player_stamina" -> "compute_stamina"
      [] f = "player_regen" -> "compute_regen"
      [] f = "player_leadership" -> "compute_leadership"
      [] f = "mana" -> "compute_mana"

\* the body of the compute method of field f, r being what its call of
\* compute_player_physical_stats gives: every method returns it, except
\* compute_damage, whose body is the bare call
MethodBody(f, r) ==
    IF f = "damage" /\ ~IsRaised(r) THEN None ELSE r

\* self.compute_<field>(): the category's compute method of the derived
\* field f, with the method's fixed growth options
ComputeMethod(f) ==
    /\ Receive(MethodBody(f, Outcome(Chosen(f), Options(f)[1],
                                     Options(f)[2], Options(f)[3])))
    /\ op' = Call(MethodName(f), f)
    /\ level_ups' = 0
    /\ history' = history
    /\ player' = player
    /\ other' = other
    /\ UNCHANGED <<physical, main_name, substats, main_level,
                   total_substat_levels, main_level_req>>

\* the growth options tried in direct calls: those of compute_damage, and
\* the same with a negative option1
OptionChoices == {<<5, 15, 100>>, <<-5, 15, 100>>}

\* the names tried in direct calls: the derived fields and the sub-stats
\* of the category, another int attribute, and a name of no attribute
CallNames ==
    PhysicalFields(main_name) \cup SubstatFields(main_name)
        \cup {"main_level", "no_such_field"}

InitCompute ==
    \E c \in Categories, L \in 1..MaxCallLevel :
        /\ main_name = c
        /\ substats = [s \in SubstatFields(c) |-> NewSubStat]
        /\ physical = [f \in PhysicalFields(c) |-> PhysicalDefault(f)]
        /\ main_level = L
        /\ total_substat_levels = 0
        /\ main_level_req = post_init_req(L, substat_amount)
        /\ op = [name |-> "init", arg |-> "", again |-> FALSE]
        /\ ret = "None"
        /\ level_ups = 0
        /\ value = 0
        /\ other = Alone
        /\ history = Untracked
        /\ player = NoPlayer

NextCompute ==
    \/ \E f \in PhysicalFields(main_name) : ComputeMethod(f)
    \/ \E name \in CallNames, o \in OptionChoices :
           ComputePlayerPhysicalStats(name, o[1], o[2], o[3])

SpecCompute == InitCompute /\ [][NextCompute]_vars

\* StatClasses.capability_measure_helper: the unit of a category
capability_measure_helper(c) ==
    CASE c = "Strength" -> "Lb"
      [] c = "Speed" -> "Kmph"
      [] c = "Durability" -> "Lbf"
      [] c = "Intelligence" -> "IQ"
      [] c = "Magic" -> "MU"

\* an attribute that has not been assigned (capability is field(init=False)
\* and SubStats.__post_init__ assigns measurement only)
Unset == [unset |-> TRUE]

\* SubStats(main_stat=c, name=..., capability_multi=m, level=L) after
\* __post_init__, with the fields compute_capability reads and writes
SubStatsOf(c, L, m) ==
    [level |-> L, exp |-> 0, exp_to_next_level |-> 10,
     capability_multi |-> m, measurement |-> capability_measure_helper(c),
     capability |-> Unset]

\* Python's a + b on ints ([int |-> n]) and strs ([str |-> s]): the sum of
\* two ints, the concatenation of two strs, TypeError for an int and a str
PyPlus(a, b) ==
    IF IsRaised(a) THEN a
    ELSE IF "int" \in DOMAIN a /\ "int" \in DOMAIN b
    THEN [int |-> a.int + b.int]
    ELSE IF "str" \in DOMAIN a /\ "str" \in DOMAIN b
    THEN [str |-> a.str \o b.str]
    ELSE Raised("TypeError")

\* the right-hand side of compute_capability:
\* self.level * self.capability_multi + " " + self.measurement
compute_capability(st) ==
    PyPlus(PyPlus([int |-> st.level * st.capability_multi], [str |-> " "]),
           [str |-> st.measurement])

\* the sub-stat after self.capability = r, left alone when r is an exception
Assigned(st, r) == IF IsRaised(r) THEN st ELSE [st EXCEPT !.capability = r]

InitCapability ==
    \E c \in Categories, L \in 1..MaxCapLevel, m \in 1..MaxMulti :
        /\ main_name = c
        /\ \E s \in SubstatFields(c) :
               substats = [x \in SubstatFields(c) |->
                              IF x = s THEN SubStatsOf(c, L, m)
                              ELSE SubStatsOf(c, 1, 1)]
        /\ physical = [f \in PhysicalFields(c) |-> PhysicalDefault(f)]
        /\ main_level = 1
        /\ total_substat_levels = 0
        /\ main_level_req = post_init_req(1, substat_amount)
        /\ op = [name |-> "init", arg |-> "", again |-> FALSE]
        /\ ret = "None"
        /\ level_ups = 0
        /\ value = 0
        /\ other = Alone
        /\ history = Untracked
        /\ player = NoPlayer

\* substat.compute_capability(): assigns capability and returns None, or
\* raises
ComputeCapability(s) ==
    /\ substats' = [substats EXCEPT
                       ![s] = Assigned(@, compute_capability(@))]
    /\ ret' = IF IsRaised(compute_capability(substats[s]))
              THEN compute_capability(substats[s]).raised ELSE "None"
    /\ op' = Call("compute_capability", s)
    /\ level_ups' = 0
    /\ history' = history
    /\ player' = player
    /\ other' = Aliased(other, substats')
    /\ UNCHANGED <<physical, main_name, main_level, total_substat_levels,
                   main_level_req, value>>

NextCapability == \E s \in SubstatFields(main_name) : ComputeCapability(s)

SpecCapability == InitCapability /\ [][NextCapability]_vars

(***************************************************************************)
(* The legacy Player (player_files/player.py).  player holds the           *)
(* attributes the leveling methods are applied to: level and exp, and the  *)
(* data group core_strength_data = [level, exp, area] as <<level, exp>>    *)
(* (the area is never read).  Numbers are Python numbers: the requirement  *)
(* of a level is a float, and so is the experience left after a level-up.  *)
(***************************************************************************)
\* -n
PyNeg(n) == WithSign(n, ~n.neg)

PySub(a, b) == PyAdd(a, PyNeg(b))

\* a > b and a >= b, by the sign of the difference (a float difference is 0
\* only for equal operands)
PyGt(a, b) == ~PySub(a, b).neg /\ ~PyIsZero(PySub(a, b))

PyGe(a, b) == ~PySub(a, b).neg \/ PyIsZero(PySub(a, b))

\* x ** 2 for a float x
PySquare(x) == PyMul(x, x)

\* start_exp and end_exp of block b (250 ** (b - 1) is 1 for b = 1)
start_exp(b) == IF b = 0 THEN 10 ELSE 50000 * Pow(250, b - 1)

end_exp(b) == IF b = 0 THEN 50000 ELSE 50000 * Pow(250, b)

\* Player.exp_req_handling(level) for an int level >= 1:
\* start_exp + ((i / 99) ** 2) * (end_exp - start_exp), a float
exp_req_blocks(b, i) ==
    PyAdd(PyInt(start_exp(b)),
          PyMul(PySquare(PyDiv(PyInt(i), PyInt(99))),
                PyInt(end_exp(b) - start_exp(b))))

exp_req_handling(level) ==
    exp_req_blocks((ToInt(level.v) - 1) \div 100, (ToInt(level.v) - 1) % 100)

\* the attributes of the Player that are modelled, and those that are lists
PlayerAttrs == {"level", "exp", "core_strength_data"}

ListAttrs == {"core_strength_data"}

\* Player(level=L, exp=E, core_strength=CL, core_strength_exp=CE)
NewPlayer(L, E, CL, CE) ==
    [constructed |-> TRUE, level |-> PyInt(L), exp |-> PyInt(E),
     core_strength_data |-> <<PyInt(CL), PyInt(CE)>>]

\* the result of a method: the player after it, and what it returned or
\* raised
Result(p, r) == [p |-> p, ret |-> r]

\* error_handling.attribute_err(stat_name)
attribute_err(p) == Result(p, Raised("Exception"))

\* getattr(self, name) failing: None as a name is a TypeError, a name of
\* no attribute an AttributeError
getattr_err(name) ==
    IF name = "None" THEN Raised("TypeError") ELSE Raised("AttributeError")

\* Player.add_exp(stat_name, amount)
Player_add_exp(p, stat_name, amount) ==
    IF stat_name \notin PlayerAttrs THEN attribute_err(p)
    ELSE IF stat_name \in ListAttrs
    THEN Result([p EXCEPT ![stat_name][2] = PyAdd(@, PyInt(amount))], None)
    ELSE Result([p EXCEPT ![stat_name] = PyAdd(@, PyInt(amount))], None)

\* the level of a stat: level[0] of a data group, the attribute otherwise
LevelOf(p, stat_name) ==
    IF stat_name \in ListAttrs THEN p[stat_name][1] ELSE p[stat_name]

\* Player.exp_req_creation(stat_name)
Player_exp_req_creation(p, stat_name) ==
    IF stat_name \notin PlayerAttrs THEN attribute_err(p)
    ELSE Result(p, exp_req_handling(LevelOf(p, stat_name)))

\* level_up's first statements on a data group: level[0] + 1,
\* level[1] - exp_req
LeveledList(p, stat_name, exp_req) ==
    [p EXCEPT ![stat_name] = <<PyAdd(@[1], PyInt(1)), PySub(@[2], exp_req)>>]

\* ... on an independent attribute: setattr(self, stat_name, level + 1),
\* which has happened when getattr(self, exp_stat_name) is evaluated
LeveledAttr(p, stat_name) == [p EXCEPT ![stat_name] = PyAdd(@, PyInt(1))]

\* setattr(self, exp_stat_name, getattr(self, exp_stat_name) - exp_req)
Paid(p, exp_stat_name, exp_req) ==
    [p EXCEPT ![exp_stat_name] = PySub(@, exp_req)]

\* the local exp of level_up
ExpOf(p, stat_name, exp_stat_name) ==
    IF stat_name \in ListAttrs THEN p[stat_name][2] ELSE p[exp_stat_name]

RECURSIVE Player_level_up(_, _, _, _)

\* the end of level_up: new_exp_req = self.exp_req_creation(stat_name);
\* if exp > new_exp_req: self.level_up(stat_name, new_exp_req, exp_stat_name)
LevelUpAgain(p, stat_name, exp, new_exp_req, exp_stat_name) ==
    IF PyGt(exp, new_exp_req)
    THEN Player_level_up(p, stat_name, new_exp_req, exp_stat_name)
    ELSE Result(p, None)

LevelUpRest(p, stat_name, exp_stat_name) ==
    LevelUpAgain(p, stat_name, ExpOf(p, stat_name, exp_stat_name),
                 exp_req_handling(LevelOf(p, stat_name)), exp_stat_name)

\* Player.level_up(stat_name, exp_req, exp_stat_name)
Player_level_up(p, stat_name, exp_req, exp_stat_name) ==
    IF stat_name \notin PlayerAttrs THEN attribute_err(p)
    ELSE IF stat_name \in ListAttrs
    THEN LevelUpRest(LeveledList(p, stat_name, exp_req), stat_name,
                     exp_stat_name)
    ELSE IF exp_stat_name \notin PlayerAttrs
    THEN Result(LeveledAttr(p, stat_name), getattr_err(exp_stat_name))
    ELSE LevelUpRest(Paid(LeveledAttr(p, stat_name), exp_stat_name, exp_req),
                     stat_name, exp_stat_name)

\* the if of check_exp_for_up, exp being level[1] or getattr(self, exp_name)
LevelUpIfDue(p, stat_data_name, exp, exp_req, exp_name) ==
    IF PyGe(exp, exp_req)
    THEN Player_level_up(p, stat_data_name, exp_req, exp_name)
    ELSE Result(p, None)

\* Player.check_exp_for_up(stat_data_name, exp_name)
Player_check_exp_for_up(p, stat_data_name, exp_name) ==
    IF stat_data_name \notin PlayerAttrs THEN attribute_err(p)
    ELSE IF stat_data_name \in ListAttrs
    THEN LevelUpIfDue(p, stat_data_name, p[stat_data_name][2],
                      exp_req_handling(LevelOf(p, stat_data_name)), "None")
    ELSE IF exp_name \notin PlayerAttrs THEN Result(p, getattr_err(exp_name))
    ELSE LevelUpIfDue(p, stat_data_name, p[exp_name],
                      exp_req_handling(LevelOf(p, stat_data_name)), exp_name)

\* the record of a call of a Player method: the method and its name
\* arguments, and the attribute fed by the call before it when that call was
\* add_exp ("" when it was not)
PlayerCall(name, arg, exp_name) ==
    [name |-> name, arg |-> arg, again |-> FALSE, exp_name |-> exp_name,
     fed |-> IF op.name = "Player.add_exp" THEN op.arg ELSE ""]

\* a call of a Player method with result r: the category is not involved
PlayerReturns(r) ==
    /\ player' = r.p
    /\ Receive(r.ret)
    /\ level_ups' = 0
    /\ history' = history
    /\ other' = other
    /\ UNCHANGED <<physical, main_name, substats, main_level,
                   total_substat_levels, main_level_req>>

\* player.add_exp(stat_name, amount)
PlayerAddExp(stat_name, amount) ==
    /\ PlayerReturns(Player_add_exp(player, stat_name, amount))
    /\ op' = PlayerCall("Player.add_exp", stat_name, "None")

\* player.level_up(stat_name, exp_req, exp_stat_name)
PlayerLevelUp(stat_name, exp_req, exp_stat_name) ==
    /\ PlayerReturns(Player_level_up(player, stat_name, exp_req,
                                     exp_stat_name))
    /\ op' = PlayerCall("Player.level_up", stat_name, exp_stat_name)

\* player.exp_req_creation(stat_name)
PlayerExpReqCreation(stat_name) ==
    /\ PlayerReturns(Player_exp_req_creation(player, stat_name))
    /\ op' = PlayerCall("Player.exp_req_creation", stat_name, "None")

\* player.check_exp_for_up(stat_data_name, exp_name)
PlayerCheckExpForUp(stat_data_name, exp_name) ==
    /\ PlayerReturns(Player_check_exp_for_up(player, stat_data_name,
                                             exp_name))
    /\ op' = PlayerCall("Player.check_exp_for_up", stat_data_name, exp_name)

\* a Player beside a fresh category
WithPlayer(p) ==
    \E c \in SpecCategories :
        /\ main_name = c
        /\ substats = [s \in SubstatFields(c) |-> NewSubStat]
        /\ physical = [f \in PhysicalFields(c) |-> PhysicalDefault(f)]
        /\ main_level = 1
        /\ total_substat_levels = 0
        /\ main_level_req = post_init_req(1, substat_amount)
        /\ op = [name |-> "init", arg |-> "", again |-> FALSE]
        /\ ret = "None"
        /\ level_ups = 0
        /\ value = 0
        /\ other = Alone
        /\ history = Untracked
        /\ player = p

\* the levels and experience a Player's stat is constructed with where
\* large deposits are made: levels whose requirement is near 50000
StartLevels == (MaxPlayerLevel - 3)..MaxPlayerLevel

StartExps == {0, 1}

\* Player(level=L, exp=E) or Player(core_strength=L, core_strength_exp=E)
InitLegacy ==
    \E L \in StartLevels, E \in StartExps :
        \/ WithPlayer(NewPlayer(L, E, 1, 0))
        \/ WithPlayer(NewPlayer(1, 1, L, E))

\* the stat and experience names the leveling methods are called with:
\* level with exp, and the data group (which holds both)
Stats == {<<"level", "exp">>, <<"core_strength_data", "None">>}

\* the attribute add_exp is given to feed the stat st
ExpName(st) == IF st[1] \in ListAttrs THEN st[1] ELSE st[2]

LargeAmounts == {50000}

\* large deposits go to a stat constructed at one of StartLevels, while its
\* level is <= MaxPlayerLevel and its experience stays <= MaxPlayerExp
LegacyInBounds(st, amount) ==
    /\ ToInt(LevelOf(player, st[1]).v) \in (MaxPlayerLevel - 3)..MaxPlayerLevel
    /\ PyGe(PyInt(MaxPlayerExp),
            PyAdd(ExpOf(player, st[1], st[2]), PyInt(amount)))

NextLegacy ==
    \/ \E st \in Stats, a \in LargeAmounts :
           LegacyInBounds(st, a) /\ PlayerAddExp(ExpName(st), a)
    \/ \E st \in Stats : PlayerCheckExpForUp(st[1], st[2])

SpecLegacy == InitLegacy /\ [][NextLegacy]_vars

\* Player("Jeremy"): level 1, exp 1, core_strength_data [1, 0, None]
InitNames == WithPlayer(NewPlayer(1, 1, 1, 0))

\* the names the methods are called with: attributes of the player, a name
\* of no attribute, and "None" for an exp_stat_name left at its default
AddExpNames == {"exp", "core_strength_data", "no_such_stat"}

LevelNames == {"level", "core_strength_data", "no_such_stat"}

NamePairs ==
    {<<"level", "exp">>, <<"core_strength_data", "None">>,
     <<"no_such_stat", "exp">>, <<"level", "no_such_stat">>,
     <<"level", "None">>}

SmallAmounts == {10}

\* the exp_req level_up is called with directly
DirectReqs == {10}

\* small deposits are made while the experience stays <= MaxSmallExp
SmallInBounds(stat_name, amount) ==
    stat_name \in PlayerAttrs =>
        PyGe(PyInt(MaxSmallExp),
             PyAdd(ExpOf(player, stat_name, stat_name), PyInt(amount)))

\* level_up is called directly on a stat of level < MaxDirectLevel
DirectInBounds(stat_name) ==
    stat_name \in PlayerAttrs =>
        ToInt(LevelOf(player, stat_name).v) < MaxDirectLevel

NextNames ==
    \/ \E n \in AddExpNames, a \in SmallAmounts :
           SmallInBounds(n, a) /\ PlayerAddExp(n, a)
    \/ \E c \in NamePairs, q \in DirectReqs :
           DirectInBounds(c[1]) /\ PlayerLevelUp(c[1], PyInt(q), c[2])
    \/ \E n \in LevelNames : PlayerExpReqCreation(n)
    \/ \E c \in NamePairs : PlayerCheckExpForUp(c[1], c[2])

SpecNames == InitNames /\ [][NextNames]_vars

(***************************************************************************)
(* Properties                                                              *)
(***************************************************************************)
Member(n) == n \in SubstatFields(main_name)

\* the last call ran check_and_level_up on a sub-stat of the category,
\* directly or through train
Resolved ==
    /\ op.name \in {"check_and_level_up", "train"}
    /\ Member(op.arg)

C2_ThresholdIsCurveAtLevel ==
    \A s \in DOMAIN substats :
        substats[s].exp_to_next_level
            = compute_exp_requirement(substats[s].level)

C4_TotalIsLevelsGained ==
    total_substat_levels = LevelsGained(DOMAIN substats)

\* C5: a try_main_level_up call made with total_substat_levels >=
\* main_level_req adds exactly 1 to main_level, sets main_level_req to the new
\* main_level times the sub-stat count and returns True; otherwise it returns
\* False and changes no field.
C5_TryMainLevelUpOnce ==
    [][op'.name = "try_main_level_up" =>
          IF total_substat_levels >= main_level_req
          THEN /\ main_level' = main_level + 1
               /\ main_level_req' = main_level' * substat_amount
               /\ ret' = "True"
          ELSE /\ ret' = "False"
               /\ UNCHANGED <<main_level, main_level_req,
                              total_substat_levels, substats>>]_vars

\* a level-up that left a surplus large enough for the next one
C5_Witness ==
    /\ op.name = "try_main_level_up"
    /\ ret = "True"
    /\ main_level = 2
    /\ total_substat_levels >= main_level_req

\* C6: in every state reached by train and try_main_level_up calls,
\* main_level_req = main_level * substat_amount.
C6_MainLevelReq ==
    main_level_req = main_level * substat_amount

C6_Witness ==
    /\ op.name = "try_main_level_up"
    /\ ret = "True"
    /\ main_level >= 3
    /\ main_level_req = main_level * substat_amount

\* C7: a train call with a name that is not a sub-stat of the category raises
\* UnknownAttributeError and leaves total_substat_levels unchanged.
C7_UnknownNameRaises ==
    [][(op'.name = "train" /\ ~Member(op'.arg)) =>
          /\ ret' = "UnknownAttributeError"
          /\ total_substat_levels' = total_substat_levels]_vars

\* C8: an add_exp call with a negative amount fails with InvalidInputError
\* and leaves the sub-stat's exp, level and exp_to_next_level unchanged.
C8_NegativeAddExpFails ==
    [][\A s \in SubstatFields(main_name), a \in Amounts :
          (a < 0 /\ AddExp(s, a)) =>
              /\ ret' = "InvalidInputError"
              /\ substats'[s] = substats[s]]_vars

\* C9: no sequence of add_exp, check_and_level_up and train calls brings a
\* sub-stat's exp below 0.
C9_ExpNeverNegative ==
    \A s \in DOMAIN substats : substats[s].exp >= 0

\* C10: a check_and_level_up call made right after a check_and_level_up call
\* on the same sub-stat returns False and leaves the sub-stat's level, exp and
\* exp_to_next_level unchanged.
C10_ResolveIdempotent ==
    [][(op.name = "check_and_level_up" /\ op'.name = "check_and_level_up"
        /\ op'.arg = op.arg) =>
          /\ ret' = "False"
          /\ level_ups' = 0
          /\ substats' = substats]_vars

\* a second call in a row, on a sub-stat that the first call had levelled up
C10_Witness ==
    /\ op.name = "check_and_level_up"
    /\ op.again
    /\ ret = "False"
    /\ substats[op.arg].level >= 2
C12_LevelUpsAtMostExpOverTen ==
    [][op'.name = "check_and_level_up" =>
          level_ups' * 10 <= substats[op'.arg].exp]_vars

\* C13: a train call changes neither main_level nor main_level_req, even when
\* it brings total_substat_levels to or past main_level_req.
C13_TrainLeavesMainLevel ==
    [][op'.name = "train" => UNCHANGED <<main_level, main_level_req>>]_vars

C13_Witness ==
    /\ op.name = "train"
    /\ ret = "True"
    /\ total_substat_levels = main_level_req
    /\ main_level = 1

\* C14: a try_main_level_up call leaves total_substat_levels and every
\* sub-stat's level, exp and exp_to_next_level unchanged, whether or not it
\* returns True.
C14_TryMainLeavesCounters ==
    [][op'.name = "try_main_level_up" =>
          UNCHANGED <<total_substat_levels, substats>>]_vars

\* a level-up of the category with the counter it was paid from still there
C14_Witness ==
    /\ op.name = "try_main_level_up"
    /\ ret = "True"
    /\ total_substat_levels = substat_amount
    /\ main_level_req = 2 * substat_amount

\* C15: over add_exp, check_and_level_up, train and try_main_level_up calls no
\* sub-stat level, main_level or total_substat_levels ever decreases, and
\* every sub-stat level and main_level is >= 1.
C15_LevelsNeverDecrease ==
    /\ [](/\ main_level >= 1
          /\ \A s \in DOMAIN substats : substats[s].level >= 1)
    /\ [][/\ main_level' >= main_level
           /\ total_substat_levels' >= total_substat_levels
           /\ \A s \in DOMAIN substats :
                  substats'[s].level >= substats[s].level]_vars

\* a negative deposit into a sub-stat that has levelled up, in a category
\* that has levelled up
C15_Witness ==
    /\ op.name = "add_exp"
    /\ substats[op.arg].exp < 0
    /\ substats[op.arg].level >= 2
    /\ main_level >= 2
    /\ total_substat_levels >= 3
\* the level of the sub-stat whose compute_exp_requirement was called last
CurveLevel == substats[op.arg].level

Computed == op.name = "compute_exp_requirement"

\* v = floor(start + (i / 99)^2 * (end - start)) for level L, with b, i,
\* start and end as the specification gives them: v - start is the integer r
\* with 9801 * r <= i * i * (end - start) < 9801 * (r + 1)
IsCurveFloor(L, v) ==
    LET b == (L - 1) \div 100
        i == (L - 1) % 100
        start == IF b = 0 THEN 10 ELSE 50000 * Pow(250, b - 1)
        end == IF b = 0 THEN 50000 ELSE 50000 * Pow(250, b)
        dq == (end - start) \div 9801
        dr == (end - start) % 9801
        k == i * i * dq - (v - start)
    IN  /\ k <= 0
        /\ k >= -9801
        /\ 9801 * k + i * i * dr >= 0
        /\ 9801 * k + i * i * dr < 9801

\* C16: compute_exp_requirement returns floor(start + (i / 99)^2 * (end -
\* start)) for the sub-stat's level, and changes no field of the sub-stat.
C16_CurveFormula ==
    [][op'.name = "compute_exp_requirement" =>
          /\ IsCurveFloor(substats[op'.arg].level, value')
          /\ substats' = substats]_vars

C16_Witness ==
    /\ Computed
    /\ CurveLevel = 102
    /\ value = 51270

\* C17: the requirement is > 0 at every level, and within a 100-level block
\* the requirement of level L + 1 is >= the requirement of level L.
C17_PositiveNonDecreasing ==
    Computed =>
        /\ value > 0
        /\ (CurveLevel - 1) \div 100 = CurveLevel \div 100
              => compute_exp_requirement(CurveLevel + 1) >= value

C17_Witness ==
    /\ Computed
    /\ CurveLevel = 150
    /\ value > 0
    /\ compute_exp_requirement(151) > value

\* C18: at each block boundary the requirement of the first level of the next
\* block is strictly greater than that of the last level of the block.
C18_StrictJumpAtBoundary ==
    (Computed /\ CurveLevel % 100 = 0 /\ CurveLevel < MaxCurveLevel) =>
        compute_exp_requirement(CurveLevel + 1) > value

\* C18 as amended: at the boundary between the first two blocks there is no
\* jump, levels 100 and 101 both require 50000.
C18_NoJumpAtFirstBoundary ==
    (Computed /\ CurveLevel = 100) =>
        /\ value = 50000
        /\ compute_exp_requirement(101) = value

C18_Witness ==
    /\ Computed
    /\ CurveLevel = 100
    /\ value = 50000

\* C19: the first block is levels 1 to 99, running from 10 at level 1 to
\* 50000 at level 99, and level 100 is the first level of the range that
\* starts at 50000.
C19_FirstBlockEndsAt99 ==
    Computed =>
        /\ CurveLevel = 1 => value = 10
        /\ CurveLevel = 99 => value = 50000
        /\ CurveLevel = 100 => value = 50000

\* the value the formula of the derived stats gives in exact arithmetic, in
\* units of 1/100: the smallest multiple of 10^(d - 3) that is >=
\* floor(old * 1.1) + (level / 5) * f, d the number of digits of its integer
\* part, f the tier's factor.  The sum is num / den.
DerivedFormula(level, old, low, mid, high) ==
    LET den == IF level < 100 THEN 5 ELSE 375
        num == ((old * 11) \div 10) * den
               + (IF level < 50 THEN level * low
                  ELSE IF level <= 99 THEN level * mid
                  ELSE level * high * (level - 25))
        d == Digits(num \div den)
        unit == IF d >= 3 THEN 100 * Pow(10, d - 3) ELSE Pow(10, d - 1)
    IN  ((num * 100 + den * unit - 1) \div (den * unit)) * unit

\* the value, in units of 1/100, that compute_player_physical_stats computes
\* for the derived field f with the options of the field's compute method
MethodValue(f) ==
    InHundredths(compute_player_physical_stats(
        main_level, physical[f], Options(f)[1], Options(f)[2], Options(f)[3]))

ComputeMethods == {MethodName(f) : f \in PhysicalFields(main_name)}

\* C22: every per-field compute method returns to its caller the value that
\* compute_player_physical_stats computes for the field with the method's
\* fixed options at the current main_level.
C22_ComputeMethodReturnsValue ==
    op.name \in ComputeMethods =>
        ret = "number" /\ value = MethodValue(op.arg)

\* the same for the methods other than compute_damage
C22_OtherMethodsReturnValue ==
    (op.name \in ComputeMethods /\ op.name # "compute_damage") =>
        ret = "number" /\ value = MethodValue(op.arg)

\* C20: compute_player_physical_stats(field, low, mid, high) returns
\* round_to_3_leading_digits(floor(old_value * 1.1) + (main_level / 5) * f),
\* f = low below main level 50, mid from 50 to 99, and
\* high * (1 + (main_level - 100) / 75) from 100 on.
C20_DerivedStatFormula ==
    op.name = "compute_player_physical_stats" =>
        value = DerivedFormula(main_level, physical[op.arg],
                               Options(op.arg)[1], Options(op.arg)[2],
                               Options(op.arg)[3])

\* the smallest multiple of f that is >= a, for natural numbers a and f
MultipleAtLeast(a, f) ==
    IF BDivMod(a, f).r = <<>> THEN a
    ELSE BMul(BAdd(BDivMod(a, f).q, <<1>>), f)

\* the smallest multiple of 10^max(d - 3, 0) that is >= a, d the number of
\* decimal digits of the natural number a >= 1
ThreeLeadingDigits(a) ==
    MultipleAtLeast(a, BPow10(IF BDigits(a) > 3 THEN BDigits(a) - 3 ELSE 0))

\* the Python number r is the natural number a (as an int, or as a float)
IsNumber(r, a) ==
    IF r.int THEN r.v = a
    ELSE BitLen(a) <= 53 /\ r.v = RoundRat(a, <<1>>, 0)

\* C21: round_to_3_leading_digits(n) returns 0 for n = 0 and, for every
\* integer n >= 1 with d decimal digits, the smallest multiple of
\* 10^max(d - 3, 0) that is >= n.
C21_RoundsUpToThreeDigits ==
    (op.name = "round_to_3_leading_digits" /\ op.arg.int) =>
        IF op.arg.v = <<>> THEN IsNumber(value, <<>>)
        ELSE IsNumber(value, ThreeLeadingDigits(op.arg.v))
\* a field name that is not a derived attribute of the category
NotDerived(name) == name \notin PhysicalFields(main_name)

\* C23: compute_player_physical_stats called with a name that is not a
\* derived attribute of the category fails with InvalidInputError (and
\* changes no state of the category: the action's UNCHANGED).
C23_UnknownFieldFails ==
    (op.name = "compute_player_physical_stats" /\ NotDerived(op.arg)) =>
        ret = "InvalidInputError"

\* the call leaves every attribute of the category as it was
C23_CallChangesNoState ==
    [][op'.name = "compute_player_physical_stats" =>
           UNCHANGED <<physical, main_name, substats, main_level,
                       total_substat_levels, main_level_req>>]_vars

\* a triple of growth options with a negative one
HasNegative(o) == \E i \in 1..3 : o[i] < 0

\* C24: compute_player_physical_stats called with a negative growth option
\* fails with InvalidInputError instead of returning a value.
C24_NegativeFactorFails ==
    (op.name = "compute_player_physical_stats" /\ HasNegative(op.options)) =>
        ret = "InvalidInputError"
\* the display value "<number> <unit>" of a sub-stat of the category
Display(st) ==
    [str |-> ToString(st.level * st.capability_multi) \o " "
                 \o capability_measure_helper(main_name)]

\* C25: compute_capability sets the sub-stat's capability to the display
\* value "<level * capability_multi> <unit>", the unit being that of the
\* owning category, for every level >= 1 and multiplier >= 1.
C25_CapabilityIsDisplayValue ==
    op.name = "compute_capability" =>
        /\ ret = "None"
        /\ substats[op.arg].capability = Display(substats[op.arg])

\* the measurement of every sub-stat is the unit of its category
C25_MeasurementIsUnit ==
    \A s \in DOMAIN substats :
        substats[s].measurement = capability_measure_helper(main_name)
\* the sub-stats of this category other than the one named
Others(name) == DOMAIN substats \ {name}

\* C27: train(name, amount) changes only the named sub-stat and its own
\* category's total_substat_levels: every other sub-stat of the category,
\* and every sub-stat and counter of another instance of the class, is
\* unchanged.
C27_TrainChangesOnlyNamed ==
    [][/\ op'.name = "train" =>
            /\ \A s \in Others(op'.arg) : substats'[s] = substats[s]
            /\ other' = other
            /\ UNCHANGED <<main_level, main_level_req, physical, main_name>>
       /\ op'.name = "other.train" =>
            /\ \A s \in Others(op'.arg) :
                   other'.substats[s] = other.substats[s]
            /\ other'.main_level = other.main_level
            /\ other'.main_level_req = other.main_level_req
            /\ UNCHANGED <<substats, total_substat_levels, main_level,
                           main_level_req, physical, main_name>>]_vars

\* a train call has levelled a sub-stat that the other instance still has
\* at level 1, the other instance having levelled another one
C27_Witness ==
    /\ op.name = "train"
    /\ ret = "True"
    /\ other.substats[op.arg].level = 1
    /\ \E s \in Others(op.arg) :
           other.substats[s].level = 2 /\ substats[s].level = 1
\* the sub-stat counts of the category classes
SubstatCount(c) == IF c = "Magic" THEN 3 ELSE 4

\* the state of a category on which no method has been called yet
FreshFacts ==
    /\ main_level = 1
    /\ total_substat_levels = 0
    /\ main_level_req = SubstatCount(main_name)
    /\ DOMAIN substats = SubstatFields(main_name)
    /\ Cardinality(DOMAIN substats) = SubstatCount(main_name)
    /\ \A s \in DOMAIN substats :
           /\ substats[s].level = 1
           /\ substats[s].exp = 0
           /\ substats[s].exp_to_next_level = 10

\* C26: a freshly constructed category has main_level 1,
\* total_substat_levels 0, main_level_req equal to its sub-stat count
\* (Magic 3, the other classes 4) and every sub-stat at level 1, exp 0,
\* exp_to_next_level 10; try_main_level_up on it returns False.
C26_FreshCategory ==
    /\ [](op.name = "init" => FreshFacts)
    /\ [][(op.name = "init" /\ op'.name = "try_main_level_up") =>
              (ret' = "False" /\ main_level' = 1)]_vars

\* try_main_level_up has returned False on a category on which nothing
\* has been trained
C26_Witness ==
    /\ op.name = "try_main_level_up"
    /\ ret = "False"
    /\ FreshFacts
    /\ main_name = "Durability"
\* C28: train called with a name that is not one of the category's
\* sub-stats returns a non-true result and leaves the whole category
\* unchanged: no sub-stat, and none of main_level, main_level_req,
\* total_substat_levels, changes.
C28_UnknownNameChangesNothing ==
    [][(op'.name = "train" /\ op'.arg \notin SubstatFields(main_name)) =>
           /\ ret' \in {"None", "False"}
           /\ UNCHANGED <<substats, main_level, main_level_req,
                          total_substat_levels, physical, main_name>>]_vars

\* train was called with the name of a derived field on a category that
\* has counted a level-up
C28_Witness ==
    /\ op.name = "train"
    /\ op.arg \in PhysicalFields(main_name)
    /\ ret = "None"
    /\ total_substat_levels >= 1
    /\ \E s \in DOMAIN substats : substats[s].exp # 0

\* C29: in every state reachable from a fresh category by train and
\* try_main_level_up calls, total_substat_levels >= (main_level - 1) *
\* substat_amount.
C29_MainLevelNotAhead ==
    total_substat_levels >= (main_level - 1) * substat_amount

\* the main level has gone up twice and total_substat_levels is exactly
\* what that took
C29_Witness ==
    /\ main_level = 3
    /\ total_substat_levels = (main_level - 1) * substat_amount

\* try_main_level_up has just returned False
ReturnedFalse == op.name = "try_main_level_up" /\ ret = "False"

\* the main level that total_substat_levels pays for
Settled == main_level = (total_substat_levels \div substat_amount) + 1

C31_ExperienceConserved ==
    history.tracked =>
        \A s \in DOMAIN substats :
            history.deposited[s] = substats[s].exp + history.deducted[s]

\* a sub-stat has been levelled twice and keeps experience left over
C31_Witness ==
    /\ history.tracked
    /\ \E s \in DOMAIN substats :
           /\ substats[s].level = 3
           /\ substats[s].exp > 0
           /\ history.deducted[s] > 0
           /\ history.deposited[s] = substats[s].exp + history.deducted[s]
Checked == <<op.arg, op.exp_name>>

\* C34: legacy Player leveling: after add_exp followed by check_exp_for_up
\* on a stat, for any starting level >= 1 and any non-negative experience,
\* the stat's experience is strictly below the requirement of the level it
\* ends at.
C34_LegacyExpBelowRequirement ==
    (/\ op.name = "Player.check_exp_for_up"
     /\ ret = "None"
     /\ op.fed = ExpName(Checked)) =>
        ~PyGe(ExpOf(player, op.arg, op.exp_name),
              exp_req_handling(LevelOf(player, op.arg)))
PlayerMethods ==
    {"Player.add_exp", "Player.level_up", "Player.exp_req_creation",
     "Player.check_exp_for_up"}

\* the exceptions a Player method ends with
PlayerErrors == {"Exception", "AttributeError", "TypeError"}

\* C35: legacy Player operations add_exp, level_up, exp_req_creation and
\* check_exp_for_up, when given a stat name that is not an attribute of the
\* player, raise an error and leave every attribute of the player unchanged.
C35_UnknownStatRaisesUnchanged ==
    [][(/\ op'.name \in PlayerMethods
        /\ \/ op'.arg \notin PlayerAttrs
           \/ op'.exp_name = "no_such_stat") =>
            (ret' \in PlayerErrors /\ player' = player)]_vars

\* what holds of the code: with a first name (stat_name, stat_data_name)
\* that is no attribute, each of the four methods raises Exception
\* (error_handling.attribute_err) and changes no attribute
C35_UnknownFirstNameChangesNothing ==
    [][(op'.name \in PlayerMethods /\ op'.arg \notin PlayerAttrs) =>
            (ret' = "Exception" /\ player' = player)]_vars
====
